---- MODULE Spec2Model ----
(***************************************************************************)
(* Model of the prompts repository: the Entry Store (src/index.ts), the    *)
(* context aggregator CLI (scripts/build-context.ts) and the structure     *)
(* validator (scripts/validate-structure.ts).                              *)
(*                                                                         *)
(* A file or directory name is a sequence of tokens, e.g. "overview.md" is *)
(* <<"overview", ".md">>, so that extname() and String.replace('.md', '')  *)
(* are computed, not assumed.  A JavaScript object is an ordered mapping:  *)
(* a sequence of [k, v] pairs in insertion order.                          *)
(***************************************************************************)
EXTENDS Integers, Sequences, FiniteSets, TLC

VARIABLES store, host, out, report, again, reply, heap, builder, client, history

\* the state of the library's callers: the outcome of the last Entry Store
\* call, the objects a ContextBuilder and its caller hold, and what was loaded
api == <<reply, heap, builder, client, history>>

vars == <<store, host, out, report, again, reply, heap, builder, client, history>>

(***************************************************************************)
(* Bounds                                                                  *)
(***************************************************************************)
MaxNodes == 5
MaxValNodes == 3
MaxHost == 2

(***************************************************************************)
(* Names                                                                   *)
(***************************************************************************)
Nm(s) == <<s>>

DotTokens == {".md", ".txt"}

FileNames == {<<"overview", ".md">>, <<"status", ".md">>, <<"notes", ".txt">>}

Texts == {"t1", "t2"}

\* the directories of PROMPTS_DIR, in the order of listAll()'s sort()
TopOrder == <<Nm("applications"), Nm("cache"), Nm("h1b-visa-analysis"), Nm("packages"),
              Nm("system"), Nm("workflows")>>

TopDirs == {TopOrder[i] : i \in 1..Len(TopOrder)}

TopRank(n) == CHOOSE i \in 1..Len(TopOrder) : TopOrder[i] = n

SubDirs == {Nm("cache"), Nm("h1b-visa-analysis")}

Targets == {Nm("cache"), Nm("h1b-visa-analysis"), Nm("overview")}

NoTarget == <<>>

Scopes == {"system", "package", "application", "workflow", "full"}

(***************************************************************************)
(* The file tree under PROMPTS_DIR                                         *)
(***************************************************************************)
FileNode(n, txt, rd) ==
  [name |-> n, kind |-> "file", text |-> txt, readable |-> rd, children |-> <<>>]

DirNode(n, ch) ==
  [name |-> n, kind |-> "dir", text |-> "", readable |-> TRUE, children |-> ch]

NoNode ==
  [name |-> <<>>, kind |-> "none", text |-> "", readable |-> FALSE, children |-> <<>>]

IndexOf(listing, n) ==
  IF \E i \in 1..Len(listing) : listing[i].name = n
  THEN CHOOSE i \in 1..Len(listing) : listing[i].name = n
  ELSE 0

RECURSIVE NodeAt(_, _)
NodeAt(node, path) ==
  IF path = <<>> THEN node
  ELSE IF node.kind # "dir" THEN NoNode
  ELSE LET i == IndexOf(node.children, Head(path))
       IN IF i = 0 THEN NoNode ELSE NodeAt(node.children[i], Tail(path))

Root(s) == DirNode(<<>>, s)

RECURSIVE NodeCount(_)
NodeCount(listing) ==
  IF listing = <<>> THEN 0
  ELSE 1 + NodeCount(Head(listing).children) + NodeCount(Tail(listing))

RECURSIVE AddAt(_, _, _)
AddAt(listing, path, node) ==
  IF path = <<>> THEN Append(listing, node)
  ELSE [i \in 1..Len(listing) |->
          IF listing[i].name = Head(path)
          THEN [listing[i] EXCEPT !.children = AddAt(@, Tail(path), node)]
          ELSE listing[i]]

(***************************************************************************)
(* node:path extname() and String.prototype.replace('.md', '')             *)
(***************************************************************************)
extname(n) ==
  IF Len(n) >= 2 /\ n[Len(n)] \in DotTokens THEN n[Len(n)] ELSE ""

RECURSIVE replaceMd(_)
replaceMd(n) ==
  IF n = <<>> THEN <<>>
  ELSE IF Head(n) = ".md" THEN Tail(n)
  ELSE <<Head(n)>> \o replaceMd(Tail(n))

(***************************************************************************)
(* JavaScript values and objects                                           *)
(***************************************************************************)
\* the characters of a stored text: t2 holds the end mark of a CDATA section
\* and a double quote
TextChars(s) ==
  IF s = "t1" THEN <<"a">>
  ELSE IF s = "t2" THEN <<"x", "]]>", "\"", "y">>
  ELSE IF s = "" THEN <<>>
  ELSE <<s>>

\* a value: t is its typeof, s the text read from the store that a string
\* holds, c the characters of a string or the digits of a number, o the
\* properties of an object or the elements of an array
Str(s) == [t |-> "str", s |-> s, o |-> <<>>, c |-> TextChars(s)]
Obj(m) == [t |-> "obj", s |-> "", o |-> m, c |-> <<>>]
Undef == [t |-> "undef", s |-> "", o |-> <<>>, c |-> <<>>]
Chars(c) == [t |-> "str", s |-> "", o |-> <<>>, c |-> c]
Num(n) == [t |-> "num", s |-> "", o |-> <<>>, c |-> <<ToString(n)>>]
Arr(elems) ==
  [t |-> "arr", s |-> "", c |-> <<>>,
   o |-> [i \in 1..Len(elems) |-> [k |-> <<ToString(i - 1)>>, v |-> elems[i]]]]

\* the value of a key that is an array index (a canonical numeric string),
\* -1 for every other key
ArrayIndex(k) ==
  IF k = <<"2">> THEN 2
  ELSE IF k = <<"10">> THEN 10
  ELSE -1

KeyIndex(m, k) ==
  IF \E i \in 1..Len(m) : m[i].k = k
  THEN CHOOSE i \in 1..Len(m) : m[i].k = k
  ELSE 0

Has(m, k) == KeyIndex(m, k) # 0

Get(m, k) == IF Has(m, k) THEN m[KeyIndex(m, k)].v ELSE Undef

\* the place of a new array-index key: after the smaller array-index keys
IndexKeysBelow(m, k) ==
  Cardinality({i \in 1..Len(m) : ArrayIndex(m[i].k) >= 0 /\ ArrayIndex(m[i].k) < ArrayIndex(k)})

InsertAt(m, p, e) == SubSeq(m, 1, p) \o <<e>> \o SubSeq(m, p + 1, Len(m))

\* obj[k] = v: an object keeps its array-index keys first, in ascending
\* order, then its other keys in the order of their creation; an assignment
\* to the key __proto__ goes to the prototype setter and creates no property
Put(m, k, v) ==
  IF k = Nm("__proto__") THEN m
  ELSE IF Has(m, k)
  THEN [i \in 1..Len(m) |-> IF m[i].k = k THEN [k |-> k, v |-> v] ELSE m[i]]
  ELSE IF ArrayIndex(k) >= 0
  THEN InsertAt(m, IndexKeysBelow(m, k), [k |-> k, v |-> v])
  ELSE Append(m, [k |-> k, v |-> v])

Keys(m) == [i \in 1..Len(m) |-> m[i].k]

KeySet(m) == {m[i].k : i \in 1..Len(m)}

(***************************************************************************)
(* Results of operations that may throw; calls counts the Entry Store      *)
(* operations performed.  Bind(r, F) continues with F on the value of r    *)
(* unless r is a throw, which it propagates.                               *)
(***************************************************************************)
Ok(v, c) == [ok |-> TRUE, val |-> v, calls |-> c, err |-> ""]

Fail(e, c) == [ok |-> FALSE, val |-> <<>>, calls |-> c, err |-> e]

AddCalls(c, r) == [r EXCEPT !.calls = @ + c]

Bind(r, F(_)) == IF r.ok THEN AddCalls(r.calls, F(r.val)) ELSE r

(***************************************************************************)
(* Entry Store: src/index.ts                                               *)
(***************************************************************************)
\* the filter without its statSync(filePath).isFile() half
IsPromptFile_anyKind(node) == extname(node.name) = ".md"

IsPromptFile(node) == node.kind = "file" /\ extname(node.name) = ".md"

\* the loop of getPrompts: an unreadable file is warned about and skipped
RECURSIVE CollectPrompts(_, _)
CollectPrompts(files, prompts) ==
  IF files = <<>> THEN prompts
  ELSE CollectPrompts(Tail(files),
         IF IsPromptFile(Head(files)) /\ Head(files).readable
         THEN Put(prompts, replaceMd(Head(files).name), Str(Head(files).text))
         ELSE prompts)

PromptsOfDir(dir) ==
  IF dir.kind # "dir"
  THEN Fail("Failed to load prompts", 1)
  ELSE Ok(CollectPrompts(dir.children, <<>>), 1)

\* name is the path relative to PROMPTS_DIR, one element per component
getPrompts(s, name) == PromptsOfDir(NodeAt(Root(s), name))

StripMd(md) == [i \in 1..Len(md) |-> replaceMd(md[i].name)]

NamesOfNodes(nodes) == [i \in 1..Len(nodes) |-> nodes[i].name]

\* readdirSync throws when the path is absent or is not a directory
readdirSync(node) ==
  IF node.kind = "dir" THEN Ok(node.children, 1)
  ELSE Fail(IF node.kind = "none" THEN "ENOENT" ELSE "ENOTDIR", 1)

\* try { ... } catch without a rethrow
Caught_rethrown(r, v) == r

\* try { ... } catch { return v }
Caught(r, v) == IF r.ok THEN r ELSE Ok(v, r.calls)

\* lines 105-112: the filter and the map of listPromptFiles
FilesListed(dir) ==
  Bind(readdirSync(dir), LAMBDA ch : Ok(StripMd(SelectSeq(ch, IsPromptFile)), 0))

\* the outcome of a call of listPromptFiles: the names, or what it throws
listPromptFilesCall(s, name) == Caught(FilesListed(NodeAt(Root(s), name)), <<>>)

PromptFilesOfDir(dir) == Caught(FilesListed(dir), <<>>).val

listPromptFiles(s, name) == PromptFilesOfDir(NodeAt(Root(s), name))

\* the names that listAll can meet, in the order of Array.prototype.sort()
\* (UTF-16 code units: '.' < '_' < 'a')
SortOrder ==
  <<Nm(".git"), Nm("__proto__"), Nm("applications"), Nm("cache"), Nm("h1b-visa-analysis"),
    Nm("packages"), Nm("system"), Nm("workflows")>>

SortRank(n) == CHOOSE i \in 1..Len(SortOrder) : SortOrder[i] = n

\* item.startsWith('.')
startsWithDot(n) == n # <<>> /\ n[1] \in DotTokens \cup {".git"}

IsListed(node) == node.kind = "dir" /\ ~startsWithDot(node.name)

\* names.sort()
Sorted(names) ==
  [i \in 1..Len(names) |->
     CHOOSE n \in {names[j] : j \in 1..Len(names)} :
       Cardinality({j \in 1..Len(names) : SortRank(names[j]) < SortRank(n)}) = i - 1]

DirsListed(root) ==
  Bind(readdirSync(root), LAMBDA ch : Ok(Sorted(NamesOfNodes(SelectSeq(ch, IsListed))), 0))

\* the outcome of a call of listAll
listAllCall(s) == Caught(DirsListed(Root(s)), <<>>)

listAll(s) == listAllCall(s).val

PromptPath(name, file) == name \o <<file \o <<".md">>>>

\* readFileSync(fullPath, 'utf-8')
readFileSync(node) ==
  IF node.kind = "file" /\ node.readable THEN Ok(Str(node.text), 1)
  ELSE Fail(IF node.kind = "none" THEN "ENOENT"
            ELSE IF node.kind = "dir" THEN "EISDIR" ELSE "EACCES", 1)

\* catch (error) { throw new Error(...) }
Rethrown(r, msg) == IF r.ok THEN r ELSE Fail(msg, r.calls)

\* a missing prompt read as the empty text
getPrompt_orEmpty(s, name, file) ==
  Caught(readFileSync(NodeAt(Root(s), PromptPath(name, file))), Str(""))

getPrompt(s, name, file) ==
  Rethrown(readFileSync(NodeAt(Root(s), PromptPath(name, file))), "Failed to load prompt")

\* file is <<>> when the argument is omitted or is the empty string
hasPrompt(s, name, file) ==
  IF file # <<>>
  THEN NodeAt(Root(s), PromptPath(name, file)).kind = "file"
  ELSE NodeAt(Root(s), name).kind \in {"file", "dir"}

getApplicationPrompts(s) == getPrompts(s, <<Nm("h1b-visa-analysis")>>)

getSystemPrompts(s) == getPrompts(s, <<Nm("system")>>)

getWorkflowPrompts(s) == getPrompts(s, <<Nm("workflows")>>)

getPackagePrompts(s, packageName) == getPrompts(s, <<packageName>>)

(***************************************************************************)
(* ContextBuilder: src/index.ts                                            *)
(***************************************************************************)
NewBuilder == <<>>

BuilderLoad(ctx, s, name) ==
  Bind(getPrompts(s, <<name>>), LAMBDA pr : Ok(Put(ctx, name, Obj(pr)), 0))

\* { ...this.context }: the own properties, in their order
BuilderBuild(ctx) == ctx

\* the loop going on after a load that throws, the error thrown at its end
RECURSIVE LoadEach_throwAtEnd(_, _, _)
LoadEach_throwAtEnd(ctx, s, names) ==
  IF names = <<>> THEN Ok(ctx, 0)
  ELSE IF BuilderLoad(ctx, s, Head(names)).ok
  THEN LoadEach_throwAtEnd(BuilderLoad(ctx, s, Head(names)).val, s, Tail(names))
  ELSE [BuilderLoad(ctx, s, Head(names)) EXCEPT
          !.val = LoadEach_throwAtEnd(ctx, s, Tail(names)).val]

\* the loop of loadMany and loadAll, and load as a loop of one: the value is
\* this.context as the call leaves it, also when a load throws
RECURSIVE LoadEach(_, _, _)
LoadEach(ctx, s, names) ==
  IF names = <<>> THEN Ok(ctx, 0)
  ELSE IF BuilderLoad(ctx, s, Head(names)).ok
  THEN LoadEach(BuilderLoad(ctx, s, Head(names)).val, s, Tail(names))
  ELSE [BuilderLoad(ctx, s, Head(names)) EXCEPT !.val = ctx]

loadMany(ctx, s, names) == LoadEach(ctx, s, names)

loadAll(ctx, s) == LoadEach(ctx, s, listAll(s))

\* The objects the builder and its caller hold are cells of a heap of two:
\* b.context is the cell of this.context, c.built the cell of the mapping
\* that build() returned last (0: none).
OtherRef(r) == 3 - r

\* build() returning this.context itself
build_sameObject(h, b, c) == [heap |-> h, ref |-> b.context]

\* build(): a new object, which takes the cell that is not this.context
build(h, b, c) ==
  [heap |-> [h EXCEPT ![OtherRef(b.context)] = BuilderBuild(h[b.context])],
   ref |-> OtherRef(b.context)]

\* the cell of a new object of the builder: one that the caller does not hold
NewContextRef(b, c) == IF c.built = b.context THEN OtherRef(b.context) ELSE b.context

\* clear(): this.context = {}
clear(h, b, c) ==
  [heap |-> [h EXCEPT ![NewContextRef(b, c)] = NewBuilder],
   ref |-> NewContextRef(b, c)]

\* delete obj[k]
Delete(m, k) == SelectSeq(m, LAMBDA e : e.k # k)

(***************************************************************************)
(* Names imported by scripts/build-context.ts that src/index.ts does not   *)
(* define; modelled from the specification: the known packages and         *)
(* applications are the result of a listing of the packages/ and           *)
(* applications/ partitions, in the store's natural order, and the builder *)
(* loads system/, workflows/ and packages/<name>/ under the keys system,   *)
(* workflows and <name>.                                                   *)
(***************************************************************************)
IsDir(node) == node.kind = "dir"

NamesOf(nodes) == [i \in 1..Len(nodes) |-> nodes[i].name]

SubDirsOfDir(dir) ==
  IF dir.kind # "dir" THEN <<>>
  ELSE NamesOf(SelectSeq(dir.children, IsDir))

ListSubDirs(s, partition) == SubDirsOfDir(NodeAt(Root(s), <<partition>>))

listPackages(s) == ListSubDirs(s, Nm("packages"))

listApplications(s) == ListSubDirs(s, Nm("applications"))

listWorkflows(s) == listPromptFiles(s, <<Nm("workflows")>>)

loadSystem(ctx, s) ==
  Bind(getSystemPrompts(s), LAMBDA pr : Ok(Put(ctx, Nm("system"), Obj(pr)), 0))

loadWorkflows(ctx, s) ==
  Bind(getWorkflowPrompts(s), LAMBDA pr : Ok(Put(ctx, Nm("workflows"), Obj(pr)), 0))

loadPackage(ctx, s, packageName) ==
  Bind(getPrompts(s, <<Nm("packages"), packageName>>),
       LAMBDA pr : Ok(Put(ctx, packageName, Obj(pr)), 0))

(***************************************************************************)
(* scripts/build-context.ts                                                *)
(***************************************************************************)
RECURSIVE countPrompts(_)
countPrompts(obj) ==
  IF obj = <<>> THEN 0
  ELSE (IF Head(obj).v.t = "str" THEN 1
        ELSE IF Head(obj).v.t \in {"obj", "arr"} THEN countPrompts(Head(obj).v.o)
        ELSE 0)
       + countPrompts(Tail(obj))

calculateTotalPrompts(context) == countPrompts(context)

\* the listings made on the first call only and remembered empty afterwards
Metadata_listedOnce(opts, s, now) ==
  [generated |-> now, scope |-> opts.scope, target |-> opts.target,
   packages |-> IF now = 1 THEN listPackages(s) ELSE <<>>,
   applications |-> IF now = 1 THEN listApplications(s) ELSE <<>>,
   workflows |-> IF now = 1 THEN listWorkflows(s) ELSE <<>>, totalPrompts |-> 0]

\* lines 39-47; now is the reading of the clock, new Date()
Metadata(opts, s, now) ==
  [generated |-> now, scope |-> opts.scope, target |-> opts.target,
   packages |-> listPackages(s), applications |-> listApplications(s),
   workflows |-> listWorkflows(s), totalPrompts |-> 0]

\* what a case of the switch leaves in context and metadata.totalPrompts
Scoped(ctx, total) == Ok([context |-> ctx, total |-> total], 0)

One(k, v) == <<[k |-> k, v |-> v]>>

\* the loop of lines 106-110: every iteration assigns a new builder's result
RECURSIVE FullPackages(_, _, _)
FullPackages(context, s, names) ==
  IF names = <<>> THEN Ok(context, 0)
  ELSE Bind(loadPackage(NewBuilder, s, Head(names)),
            LAMBDA c : FullPackages(BuilderBuild(c), s, Tail(names)))

\* line 114
EnsureApplications(context) ==
  IF Has(context, Nm("applications")) THEN context
  ELSE Put(context, Nm("applications"), Obj(<<>>))

\* line 115
SetApplication(context, appName, prompts) ==
  Put(context, Nm("applications"),
      Obj(Put(Get(context, Nm("applications")).o, appName, Obj(prompts))))

\* the loop of lines 113-116
RECURSIVE FullApplications(_, _, _)
FullApplications(context, s, names) ==
  IF names = <<>> THEN Ok(context, 0)
  ELSE Bind(getApplicationPrompts(s),
            LAMBDA pr : FullApplications(
                          SetApplication(EnsureApplications(context), Head(names), pr),
                          s, Tail(names)))

FullCounted(context) == Scoped(context, calculateTotalPrompts(context))

FullWithApplications(context, s) ==
  Bind(FullApplications(context, s, listApplications(s)), FullCounted)

FullWithPackages(ctx, s) ==
  Bind(FullPackages(BuilderBuild(ctx), s, listPackages(s)),
       LAMBDA c : FullWithApplications(c, s))

FullWithWorkflows(ctx, s) ==
  Bind(loadWorkflows(ctx, s), LAMBDA c : FullWithPackages(c, s))

BuildFull(s) ==
  Bind(loadSystem(NewBuilder, s), LAMBDA c : FullWithWorkflows(c, s))

\* the switch of lines 51-123
ScopeCase(opts, s) ==
  CASE opts.scope = "system" ->
         Bind(getSystemPrompts(s),
              LAMBDA pr : Scoped(One(Nm("system"), Obj(pr)), Len(Keys(pr))))
    [] opts.scope = "package" ->
         IF opts.target = NoTarget
         THEN Fail("Package name required for package scope", 0)
         ELSE Bind(getPackagePrompts(s, opts.target),
                   LAMBDA pr : Scoped(One(Nm("package"), Obj(One(opts.target, Obj(pr)))),
                                      Len(Keys(pr))))
    [] opts.scope = "application" ->
         IF opts.target = NoTarget
         THEN Fail("Application name required for application scope", 0)
         ELSE Bind(getApplicationPrompts(s),
                   LAMBDA pr : Scoped(One(Nm("application"), Obj(One(opts.target, Obj(pr)))),
                                      Len(Keys(pr))))
    [] opts.scope = "workflow" ->
         IF opts.target # NoTarget
         THEN Bind(getWorkflowPrompts(s),
                   LAMBDA pr : Scoped(One(Nm("workflow"),
                                          Obj(One(opts.target, Get(pr, opts.target)))),
                                      1))
         ELSE Bind(getWorkflowPrompts(s),
                   LAMBDA pr : Scoped(One(Nm("workflows"), Obj(pr)), Len(Keys(pr))))
    [] opts.scope = "full" -> BuildFull(s)
    [] OTHER -> Fail("Unknown scope: " \o opts.scope, 0)

\* line 125: the context with the metadata built before the switch
Returned(md, r) ==
  [context |-> r.context, metadata |-> [md EXCEPT !.totalPrompts = r.total]]

\* the three listings of lines 43-45 come before the switch
buildContext(opts, s, now) ==
  AddCalls(3, Bind(ScopeCase(opts, s), LAMBDA r : Ok(Returned(Metadata(opts, s, now), r), 0)))

(***************************************************************************)
(* The serializers of scripts/build-context.ts.  A rendered text is the    *)
(* sequence of its pieces: a key or a text contributes its own characters, *)
(* "  " is two spaces of indentation.                                      *)
(***************************************************************************)
Indent(n) == [i \in 1..n |-> "  "]

\* Date.prototype.toISOString of the clock reading
toISOString(now) == <<"T", ToString(now), "Z">>

\* the escapes JSON.stringify writes inside a string
RECURSIVE Escape(_)
Escape(c) ==
  IF c = <<>> THEN <<>>
  ELSE (IF Head(c) \in {"\"", "\\"} THEN <<"\\", Head(c)>>
        ELSE IF Head(c) = "\n" THEN <<"\\", "n">>
        ELSE <<Head(c)>>)
       \o Escape(Tail(c))

Quote(c) == <<"\"">> \o Escape(c) \o <<"\"">>

\* JSON.stringify leaves out the properties whose value is undefined
IsDefined(e) == e.v.t # "undef"

\* the line break and indentation of JSON.stringify(value, null, 2)
Break(pretty, n) == IF pretty THEN <<"\n">> \o Indent(n) ELSE <<>>

\* JSON.stringify of a value at nesting depth n
RECURSIVE stringify(_, _, _)
RECURSIVE stringifyMembers(_, _, _, _)
stringifyMembers(members, isArray, pretty, n) ==
  IF members = <<>> THEN <<>>
  ELSE Break(pretty, n)
       \o (IF isArray THEN <<>>
           ELSE Quote(Head(members).k) \o <<":">> \o (IF pretty THEN <<" ">> ELSE <<>>))
       \o stringify(Head(members).v, pretty, n)
       \o (IF Len(members) > 1 THEN <<",">> ELSE <<>>)
       \o stringifyMembers(Tail(members), isArray, pretty, n)

stringify(v, pretty, n) ==
  CASE v.t = "str" -> Quote(v.c)
    [] v.t = "num" -> v.c
    [] v.t = "arr" ->
         IF v.o = <<>> THEN <<"[", "]">>
         ELSE <<"[">> \o stringifyMembers(v.o, TRUE, pretty, n + 1)
              \o Break(pretty, n) \o <<"]">>
    [] v.t = "obj" ->
         IF SelectSeq(v.o, IsDefined) = <<>> THEN <<"{", "}">>
         ELSE <<"{">> \o stringifyMembers(SelectSeq(v.o, IsDefined), FALSE, pretty, n + 1)
              \o Break(pretty, n) \o <<"}">>
    [] OTHER -> <<>>

NameList(names) == Arr([i \in 1..Len(names) |-> Chars(names[i])])

\* the metadata object of lines 39-47, its properties in that order
MetadataObject(md) ==
  Obj(<<[k |-> Nm("generated"), v |-> Chars(toISOString(md.generated))],
        [k |-> Nm("scope"), v |-> Chars(<<md.scope>>)],
        [k |-> Nm("target"), v |-> IF md.target = NoTarget THEN Undef ELSE Chars(md.target)],
        [k |-> Nm("packages"), v |-> NameList(md.packages)],
        [k |-> Nm("applications"), v |-> NameList(md.applications)],
        [k |-> Nm("workflows"), v |-> NameList(md.workflows)],
        [k |-> Nm("totalPrompts"), v |-> Num(md.totalPrompts)]>>)

\* the payload without the metadata whatever the flag says
jsonOutput_contextOnly(context, metadata, options) == Obj(context)

\* lines 155-157
jsonOutput(context, metadata, options) ==
  IF options.includeMetadata
  THEN Obj(<<[k |-> Nm("metadata"), v |-> MetadataObject(metadata)],
             [k |-> Nm("context"), v |-> Obj(context)]>>)
  ELSE Obj(context)

OpenTag(k) == <<"<">> \o k \o <<">">>

CloseTag(k) == <<"</">> \o k \o <<">">>

\* a line of the metadata block: indentation, element, line feed
XmlLine(n, k, c) == Indent(n) \o OpenTag(k) \o c \o CloseTag(k) \o <<"\n">>

\* the traversal without its descent into the nested mappings
RECURSIVE objectToXML_flat(_, _)
objectToXML_flat(obj, indent) ==
  IF obj = <<>> THEN <<>>
  ELSE (IF Head(obj).v.t = "str"
        THEN Indent(indent) \o <<"<">> \o Head(obj).k \o <<">", "<![CDATA[", "\n">>
             \o Head(obj).v.c \o <<"\n", "]]>", "</">> \o Head(obj).k \o <<">", "\n">>
        ELSE <<>>)
       \o objectToXML_flat(Tail(obj), indent)

\* lines 194-207; indent counts pairs of spaces
RECURSIVE objectToXML(_, _)
objectToXML(obj, indent) ==
  IF obj = <<>> THEN <<>>
  ELSE (IF Head(obj).v.t = "str"
        THEN Indent(indent) \o OpenTag(Head(obj).k) \o <<"<![CDATA[", "\n">>
             \o Head(obj).v.c \o <<"\n", "]]>">> \o CloseTag(Head(obj).k) \o <<"\n">>
        ELSE IF Head(obj).v.t \in {"obj", "arr"}
        THEN Indent(indent) \o OpenTag(Head(obj).k) \o <<"\n">>
             \o objectToXML(Head(obj).v.o, indent + 1)
             \o Indent(indent) \o CloseTag(Head(obj).k) \o <<"\n">>
        ELSE <<>>)
       \o objectToXML(Tail(obj), indent)

\* lines 176-219
formatAsXML(context, metadata, options) ==
  <<"<?xml version=\"1.0\" encoding=\"UTF-8\"?>", "\n">>
  \o (IF options.includeMetadata
      THEN OpenTag(Nm("context_export")) \o <<"\n">>
           \o Indent(1) \o OpenTag(Nm("metadata")) \o <<"\n">>
           \o XmlLine(2, Nm("generated"), toISOString(metadata.generated))
           \o XmlLine(2, Nm("scope"), <<metadata.scope>>)
           \o (IF metadata.target # NoTarget
               THEN XmlLine(2, Nm("target"), metadata.target) ELSE <<>>)
           \o XmlLine(2, Nm("total_prompts"), <<ToString(metadata.totalPrompts)>>)
           \o Indent(1) \o CloseTag(Nm("metadata")) \o <<"\n">>
           \o Indent(1) \o OpenTag(Nm("prompts")) \o <<"\n">>
      ELSE OpenTag(Nm("prompts")) \o <<"\n">>)
  \o objectToXML(context, 2)
  \o (IF options.includeMetadata
      THEN Indent(1) \o CloseTag(Nm("prompts")) \o <<"\n">> \o CloseTag(Nm("context_export"))
      ELSE CloseTag(Nm("prompts")))

\* String.prototype.toUpperCase of the first character of a piece
UpperFirst(piece) ==
  CASE piece = "overview" -> "Overview"
    [] piece = "status" -> "Status"
    [] piece = "notes" -> "Notes"
    [] piece = "system" -> "System"
    [] piece = "workflow" -> "Workflow"
    [] piece = "workflows" -> "Workflows"
    [] piece = "package" -> "Package"
    [] piece = "packages" -> "Packages"
    [] piece = "application" -> "Application"
    [] piece = "applications" -> "Applications"
    [] piece = "cache" -> "Cache"
    [] piece = "h1b-visa-analysis" -> "H1b-visa-analysis"
    [] OTHER -> piece

\* key.charAt(0).toUpperCase() + key.slice(1)
Label(k) == IF k = <<>> THEN <<>> ELSE <<UpperFirst(Head(k))>> \o Tail(k)

\* '#'.repeat(Math.min(level, 6))
Heading(level) == [i \in 1..(IF level < 6 THEN level ELSE 6) |-> "#"]

\* lines 238-251
RECURSIVE objectToMarkdown(_, _)
objectToMarkdown(obj, level) ==
  IF obj = <<>> THEN <<>>
  ELSE (IF Head(obj).v.t = "str"
        THEN Heading(level) \o <<" ">> \o Label(Head(obj).k) \o <<"\n\n">>
             \o Head(obj).v.c \o <<"\n\n">>
        ELSE IF Head(obj).v.t \in {"obj", "arr"}
        THEN Heading(level) \o <<" ">> \o Label(Head(obj).k) \o <<"\n\n">>
             \o objectToMarkdown(Head(obj).v.o, level + 1)
        ELSE <<>>)
       \o objectToMarkdown(Tail(obj), level)

\* lines 224-256
formatAsMarkdown(context, metadata, options) ==
  (IF options.includeMetadata
   THEN <<"#", " ", "Context Export", "\n\n">>
        \o <<"**Generated**: ">> \o toISOString(metadata.generated) \o <<"\n">>
        \o <<"**Scope**: ", metadata.scope, "\n">>
        \o (IF metadata.target # NoTarget
            THEN <<"**Target**: ">> \o metadata.target \o <<"\n">> ELSE <<>>)
        \o <<"**Total Prompts**: ", ToString(metadata.totalPrompts), "\n\n">>
        \o <<"---", "\n\n">>
   ELSE <<>>)
  \o objectToMarkdown(context, 1)

Formats == {"json", "xml", "markdown"}

\* lines 152-171
formatOutput(context, metadata, options) ==
  CASE options.format = "json" ->
         Ok(stringify(jsonOutput(context, metadata, options), ~options.minify, 0), 0)
    [] options.format = "xml" -> Ok(formatAsXML(context, metadata, options), 0)
    [] options.format = "markdown" -> Ok(formatAsMarkdown(context, metadata, options), 0)
    [] OTHER -> Fail("Unknown format: " \o options.format, 0)

NoOpts ==
  [scope |-> "", target |-> NoTarget, format |-> "", includeMetadata |-> FALSE,
   minify |-> FALSE]

\* lines 263-268: the options as parseArguments leaves them without any
\* --format, --no-metadata or --minify
Options(sc, tg) ==
  [scope |-> sc, target |-> tg, format |-> "json", includeMetadata |-> TRUE,
   minify |-> FALSE]

NoMetadata ==
  [generated |-> 0, scope |-> "", target |-> NoTarget, packages |-> <<>>, applications |-> <<>>,
   workflows |-> <<>>, totalPrompts |-> 0]

NoOut ==
  [status |-> "none", exit |-> 0, opts |-> NoOpts, context |-> <<>>,
   metadata |-> NoMetadata, text |-> <<>>, calls |-> 0, err |-> ""]

\* line 396: the result of buildContext, rendered
Formatted(opts, v) ==
  Bind(formatOutput(v.context, v.metadata, opts),
       LAMBDA text : Ok([context |-> v.context, metadata |-> v.metadata, text |-> text], 0))

\* lines 395-410: the result is printed or written, an error makes exit(1)
Outcome(opts, r) ==
  IF ~r.ok
  THEN [status |-> "error", exit |-> 1, opts |-> opts, context |-> <<>>,
        metadata |-> NoMetadata, text |-> <<>>, calls |-> r.calls, err |-> r.err]
  ELSE [status |-> "ok", exit |-> 0, opts |-> opts, context |-> r.val.context,
        metadata |-> r.val.metadata, text |-> r.val.text, calls |-> r.calls, err |-> ""]

\* main() without the scope/target validation of lines 383-386
main_noTargetCheck(opts, s, now) ==
  Outcome(opts, Bind(buildContext(opts, s, now), LAMBDA v : Formatted(opts, v)))

\* main() of scripts/build-context.ts: the outcome of one CLI run
main(opts, s, now) ==
  IF opts.scope \in {"package", "application"} /\ opts.target = NoTarget
  THEN [status |-> "error", exit |-> 1, opts |-> opts, context |-> <<>>,
        metadata |-> NoMetadata, text |-> <<>>, calls |-> 0, err |-> "--target is required"]
  ELSE Outcome(opts, Bind(buildContext(opts, s, now), LAMBDA v : Formatted(opts, v)))

(***************************************************************************)
(* scripts/validate-structure.ts                                           *)
(***************************************************************************)
KnownApplications ==
  {Nm("h1b-visa-analysis"), Nm("markdown-compiler"), Nm("report-components"),
   Nm("prompts-shared")}

\* inAppSrc: packagePath.includes('h1b-visa-analysis/src')
determinePackageType(inAppSrc, packageName) ==
  IF packageName \in KnownApplications THEN "application"
  ELSE IF inAppSrc THEN "application"
  ELSE "package"

IsProjectPackage(e) == e.isDir /\ e.name # Nm("prompts") /\ (e.pkgJson \/ e.src)

RECURSIVE ScanEntries(_, _)
ScanEntries(entries, inAppSrc) ==
  IF entries = <<>> THEN <<>>
  ELSE (IF IsProjectPackage(Head(entries))
        THEN <<[name |-> Head(entries).name,
                type |-> determinePackageType(inAppSrc, Head(entries).name)]>>
        ELSE <<>>)
       \o ScanEntries(Tail(entries), inAppSrc)

\* lines 55-74: the main application at the root of the host project
WithRootApplication(h, packages) ==
  IF h.rootPkgJson /\ h.rootSrc
  THEN Append(packages, [name |-> Nm("h1b-visa-analysis"), type |-> "application"])
  ELSE packages

scanProjectPackages(h) ==
  WithRootApplication(h, IF h.readable THEN ScanEntries(h.entries, h.inAppSrc) ELSE <<>>)

PathsOfDir(partition, dir) ==
  IF dir.kind # "dir" THEN <<>>
  ELSE [i \in 1..Len(dir.children) |-> <<partition, dir.children[i].name>>]

PartitionPaths(s, partition) == PathsOfDir(partition, NodeAt(Root(s), <<partition>>))

\* the scan without its second half (lines 115-124)
scanPromptPackages_packagesOnly(s) == PartitionPaths(s, Nm("packages"))

scanPromptPackages(s) ==
  PartitionPaths(s, Nm("packages")) \o PartitionPaths(s, Nm("applications"))

\* the expected location computed without looking at the kind
ExpectedPath_ignoreType(pkg) == <<Nm("packages"), pkg.name>>

ExpectedPath(pkg) ==
  IF pkg.type = "package" THEN <<Nm("packages"), pkg.name>>
  ELSE <<Nm("applications"), pkg.name>>

InSeq(x, sq) == \E i \in 1..Len(sq) : sq[i] = x

NoReport ==
  [status |-> "none", exit |-> 0, create |-> FALSE, project |-> <<>>, found |-> <<>>,
   missing |-> <<>>, orphaned |-> <<>>, foundCount |-> 0, missingCount |-> 0,
   orphanedCount |-> 0]

\* the loop of lines 142-156; found and missing are the lines logged
RECURSIVE CheckPackages(_, _, _)
CheckPackages(pkgs, promptPackages, acc) ==
  IF pkgs = <<>> THEN acc
  ELSE CheckPackages(Tail(pkgs), promptPackages,
         IF InSeq(ExpectedPath(Head(pkgs)), promptPackages)
         THEN [acc EXCEPT !.found = Append(@, Head(pkgs)), !.foundCount = @ + 1]
         ELSE [acc EXCEPT !.missing = Append(@, Head(pkgs)), !.missingCount = @ + 1])

ProjectNames(projectPackages) ==
  {projectPackages[i].name : i \in 1..Len(projectPackages)}

\* the name taken from the front of the path instead of its end
LeafName_first(promptPath) == promptPath[1]

LeafName(promptPath) == promptPath[Len(promptPath)]

\* the loop of lines 168-176; orphaned is the lines logged
RECURSIVE CheckOrphans(_, _, _)
CheckOrphans(paths, projectNames, acc) ==
  IF paths = <<>> THEN acc
  ELSE CheckOrphans(Tail(paths), projectNames,
         IF LeafName(Head(paths)) \notin projectNames
         THEN [acc EXCEPT !.orphaned = Append(@, Head(paths)), !.orphanedCount = @ + 1]
         ELSE acc)

\* the result decided on the missing count alone
ExitCode_missingOnly(missingCount, orphanedCount) ==
  IF missingCount = 0 THEN 0 ELSE 1

ExitCode(missingCount, orphanedCount) ==
  IF missingCount = 0 /\ orphanedCount = 0 THEN 0 ELSE 1

Concluded(r) ==
  [r EXCEPT !.status = "done", !.exit = ExitCode(r.missingCount, r.orphanedCount)]

Compared(projectPackages, promptPackages) ==
  Concluded(CheckOrphans(promptPackages, ProjectNames(projectPackages),
              CheckPackages(projectPackages, promptPackages,
                            [NoReport EXCEPT !.project = projectPackages])))

validatePromptStructure(h, s) ==
  Compared(scanProjectPackages(h), scanPromptPackages(s))

\* fs.mkdir(fullPath) without { recursive: true }: nothing is created under
\* a partition that does not exist
MkdirRecursive_parentNeeded(s, path) ==
  IF NodeAt(Root(s), <<path[1]>>).kind = "dir" /\ NodeAt(Root(s), path).kind = "none"
  THEN AddAt(s, <<path[1]>>, DirNode(path[2], <<>>))
  ELSE s

\* fs.mkdir(fullPath, { recursive: true }) of src/<partition>/<name>
MkdirRecursive(s, path) ==
  IF NodeAt(Root(s), <<path[1]>>).kind = "none"
  THEN Append(s, DirNode(path[1], <<DirNode(path[2], <<>>)>>))
  ELSE IF NodeAt(Root(s), path).kind = "none"
  THEN AddAt(s, <<path[1]>>, DirNode(path[2], <<>>))
  ELSE s

\* the loop of lines 210-228; promptPackages is the scan made before it
RECURSIVE CreateEach(_, _, _)
CreateEach(pkgs, promptPackages, s) ==
  IF pkgs = <<>> THEN s
  ELSE CreateEach(Tail(pkgs), promptPackages,
         IF InSeq(ExpectedPath(Head(pkgs)), promptPackages) THEN s
         ELSE MkdirRecursive(s, ExpectedPath(Head(pkgs))))

createMissingPrompts(h, s) == CreateEach(scanProjectPackages(h), scanPromptPackages(s), s)

\* the store a run leaves: the directories are created whatever the arguments
StoreAfterRun_alwaysCreate(create, h, s) == createMissingPrompts(h, s)

\* lines 233-237: only --create / -c runs createMissingPrompts
StoreAfterRun(create, h, s) == IF create THEN createMissingPrompts(h, s) ELSE s

\* lines 232-240: the report is made on the store that the first step leaves
ReportOfRun(create, h, s) == [validatePromptStructure(h, s) EXCEPT !.create = create]

(***************************************************************************)
(* The host project tree that scanProjectPackages reads                    *)
(***************************************************************************)
HostNames == {Nm("cache"), Nm("h1b-visa-analysis"), Nm("prompts")}

HostEntries ==
  {[name |-> n, isDir |-> d, pkgJson |-> p, src |-> c] :
     n \in HostNames, d \in BOOLEAN, p \in BOOLEAN, c \in BOOLEAN}

DistinctNames(sq) == \A i, j \in 1..Len(sq) : sq[i].name = sq[j].name => i = j

HostListings ==
  {sq \in UNION {[1..n -> HostEntries] : n \in 0..MaxHost} :
     /\ DistinctNames(sq)
     /\ \A i \in 1..Len(sq) : ~sq[i].isDir => (~sq[i].pkgJson /\ ~sq[i].src)}

\* readable: readdir(packagesDir) succeeds; when it fails nothing is listed
Hosts ==
  {h \in [readable : BOOLEAN, entries : HostListings, inAppSrc : BOOLEAN,
          rootPkgJson : BOOLEAN, rootSrc : BOOLEAN] :
     ~h.readable => h.entries = <<>>}

NoHost ==
  [readable |-> FALSE, entries |-> <<>>, inAppSrc |-> FALSE, rootPkgJson |-> FALSE,
   rootSrc |-> FALSE]

ValNames == {Nm("cache"), Nm("h1b-visa-analysis"), Nm("logger")}

Partitions == {Nm("packages"), Nm("applications")}

(***************************************************************************)
(* The callers of the library: no call made, a new ContextBuilder whose     *)
(* context is object 1 of the heap, no mapping returned yet                 *)
(***************************************************************************)
NoReply == [op |-> "none", name |-> <<>>, file |-> <<>>, res |-> Ok(<<>>, 0)]

Refs == 1..2



NoCaller ==
  /\ reply = NoReply
  /\ heap = [r \in Refs |-> <<>>]
  /\ builder = [context |-> 1]
  /\ client = [built |-> 0]
  /\ history = [loaded |-> {}, failed |-> FALSE, cleared |-> FALSE]

(***************************************************************************)
(* Actions                                                                 *)
(***************************************************************************)
NothingRun == out.status = "none" /\ report.status = "none" /\ reply.op = "none"

\* the environment creates a directory before the tools run
Mkdir(parent, n, bound) ==
  /\ NothingRun
  /\ NodeCount(store) < bound
  /\ NodeAt(Root(store), parent).kind = "dir"
  /\ IndexOf(NodeAt(Root(store), parent).children, n) = 0
  /\ store' = AddAt(store, parent, DirNode(n, <<>>))
  /\ UNCHANGED <<host, out, report, again, api>>

\* the environment writes a file before the tools run
WriteFile(dir, n, txt, rd, bound) ==
  /\ NothingRun
  /\ NodeCount(store) < bound
  /\ dir # <<>>
  /\ NodeAt(Root(store), dir).kind = "dir"
  /\ IndexOf(NodeAt(Root(store), dir).children, n) = 0
  /\ store' = AddAt(store, dir, FileNode(n, txt, rd))
  /\ UNCHANGED <<host, out, report, again, api>>

\* one run of the build-context CLI
Main(opts) ==
  /\ out.status = "none"
  /\ out' = main(opts, store, 1)
  /\ UNCHANGED <<store, host, report, again, api>>

\* a second run with the same arguments, later, the store being as it was
Again ==
  /\ out.status # "none"
  /\ again.status = "none"
  /\ again' = main(out.opts, store, 2)
  /\ UNCHANGED <<store, host, out, report, api>>

\* one run of the validate-structure CLI, with or without --create
Validate(create) ==
  /\ report.status = "none"
  /\ store' = StoreAfterRun(create, host, store)
  /\ report' = ReportOfRun(create, host, store')
  /\ UNCHANGED <<host, out, again, api>>

DirPaths == {<<>>} \cup {<<d>> : d \in TopDirs}
              \cup {<<p, d>> : p \in Partitions, d \in SubDirs}

\* the directories that hold entries
LeafDirs == DirPaths \ ({<<>>} \cup {<<p>> : p \in Partitions})

DirChoices(parent) ==
  IF parent = <<>> THEN TopDirs
  ELSE IF Len(parent) = 1 /\ parent[1] \in Partitions THEN SubDirs
  ELSE {}

ScopeArgs == Scopes \cup {"bogus"}

Init ==
  /\ store = <<>>
  /\ host = NoHost
  /\ out = NoOut
  /\ report = NoReport
  /\ again = NoOut
  /\ NoCaller

\* no operation depends on the order of PROMPTS_DIR's own listing (listAll
\* sorts it), so the top-level directories are created in sorted order
InTopOrder(parent, n) ==
  parent = <<>> => \A i \in 1..Len(store) : TopRank(store[i].name) < TopRank(n)

EnvMkdir == \E parent \in DirPaths : \E n \in DirChoices(parent) : InTopOrder(parent, n) /\ Mkdir(parent, n, MaxNodes)

\* the content of a file is observable only through a successful read of a
\* .md file: other files carry one text, unreadable files none
FileVariants(n) ==
  IF extname(n) = ".md"
  THEN {[text |-> t, readable |-> TRUE] : t \in Texts} \cup {[text |-> "", readable |-> FALSE]}
  ELSE {[text |-> "t1", readable |-> TRUE]}

EnvWriteFile == \E dir \in LeafDirs : \E n \in FileNames : \E f \in FileVariants(n) : WriteFile(dir, n, f.text, f.readable, MaxNodes)

\* --target is given with the scopes that read it
TargetArgs(sc) ==
  IF sc \in {"package", "application", "workflow"} THEN Targets \cup {NoTarget}
  ELSE {NoTarget}

RunMain == \E sc \in ScopeArgs : \E tg \in TargetArgs(sc) : Main(Options(sc, tg))

Next == EnvMkdir \/ EnvWriteFile \/ RunMain \/ Again

Spec == Init /\ [][Next]_vars

(***************************************************************************)
(* The validator's specification: the host project is any bounded listing, *)
(* the store holds the two partitions                                      *)
(***************************************************************************)
InitValidator ==
  /\ store = <<>>
  /\ host \in Hosts
  /\ out = NoOut
  /\ report = NoReport
  /\ again = NoOut
  /\ NoCaller

ValMkdirPartition == \E p \in Partitions : Mkdir(<<>>, p, MaxValNodes)

ValMkdir == \E p \in Partitions : \E n \in ValNames : Mkdir(<<p>>, n, MaxValNodes)

\* a plain file directly under a partition
ValWriteFile == \E p \in Partitions : WriteFile(<<p>>, <<"notes", ".txt">>, "t1", TRUE, MaxValNodes)

RunValidate == \E create \in BOOLEAN : Validate(create)

NextValidator == ValMkdirPartition \/ ValMkdir \/ ValWriteFile \/ RunValidate

SpecValidator == InitValidator /\ [][NextValidator]_vars

(***************************************************************************)
(* The serializers' specification: the aggregator run with every format    *)
(* option on a small store whose entries include names that are array      *)
(* indices, and formatOutput applied to mappings nested deeper than any    *)
(* aggregation makes them                                                  *)
(***************************************************************************)
MaxRenderNodes == 3
MaxDepth == 7

RenderFileNames == {<<"overview", ".md">>, <<"2", ".md">>, <<"10", ".md">>}

RenderDirs == {Nm("system"), Nm("workflows")}

RenderTargets == {Nm("overview"), Nm("2"), Nm("cache")}

FormatArgs == Formats \cup {"bogus", "yaml"}

RenderMkdir == \E n \in RenderDirs : InTopOrder(<<>>, n) /\ Mkdir(<<>>, n, MaxRenderNodes)

\* an entry may also be an empty file
RenderFileVariants(n) == FileVariants(n) \cup {[text |-> "", readable |-> TRUE]}

RenderWriteFile == \E d \in RenderDirs : \E n \in RenderFileNames : \E f \in RenderFileVariants(n) : WriteFile(<<d>>, n, f.text, f.readable, MaxRenderNodes)

RenderTargetArgs(sc) == IF sc = "workflow" THEN RenderTargets \cup {NoTarget} ELSE {NoTarget}

\* lines 284-299: --format, --no-metadata and --minify
WithFormat(opts, f, md, mini) ==
  [opts EXCEPT !.format = f, !.includeMetadata = md, !.minify = mini]

\* --scope with three of its values and two values that are none of them
RenderScopeArgs == {"system", "workflow", "full", "bogus", "all"}

RenderMain == \E sc \in RenderScopeArgs : \E tg \in RenderTargetArgs(sc) : \E f \in FormatArgs : \E md \in BOOLEAN : \E mini \in BOOLEAN : Main(WithFormat(Options(sc, tg), f, md, mini))

\* a mapping nested d deep, one key at every depth, around one text
RECURSIVE Chain(_)
Chain(d) ==
  IF d <= 1 THEN One(Nm("overview"), Str("t2"))
  ELSE One(IF d % 2 = 0 THEN Nm("cache") ELSE Nm("system"), Obj(Chain(d - 1)))

\* formatOutput applied to a mapping and the metadata that counts it
Format(context, opts) ==
  /\ NothingRun
  /\ store = <<>>
  /\ out' = Outcome(opts, Formatted(opts,
               [context |-> context,
                metadata |-> [Metadata(opts, <<>>, 1) EXCEPT
                                !.totalPrompts = calculateTotalPrompts(context)]]))
  /\ UNCHANGED <<store, host, report, again, api>>

FormatDeep == \E d \in 1..MaxDepth : \E f \in Formats : \E md \in BOOLEAN : Format(Chain(d), WithFormat(Options("full", NoTarget), f, md, FALSE))

NextRender == RenderMkdir \/ RenderWriteFile \/ RenderMain \/ FormatDeep

SpecRender == Init /\ [][NextRender]_vars

(***************************************************************************)
(* The Entry Store's specification: a caller of src/index.ts makes calls   *)
(* on a store whose directories hold entries, other files, a directory     *)
(* named like an entry and an entry with '.md' inside its name             *)
(***************************************************************************)
MaxStoreNodes == 4

StoreDirs == {Nm("system"), Nm(".git")}

StoreSubDirs == {<<"archive", ".md">>}

StoreFileNames == {<<"overview", ".md">>, <<"api", ".md", ".bak", ".md">>, <<"notes", ".txt">>}

\* the name argument: a directory, an absent path, a path to a file
StoreNames ==
  {<<d>> : d \in StoreDirs \cup {Nm("cache")}}
    \cup {<<Nm("system"), f>> : f \in StoreFileNames \cup StoreSubDirs}

\* the file argument; <<>> when it is omitted
StoreFiles ==
  {Nm("overview"), Nm("notes"), Nm("archive"), <<"api", ".bak", ".md">>, <<"api", ".md", ".bak">>}

StoreMkdir == \E n \in StoreDirs : Mkdir(<<>>, n, MaxStoreNodes)

StoreMkdirSub == \E d \in StoreDirs : \E n \in StoreSubDirs : Mkdir(<<d>>, n, MaxStoreNodes)

StoreWriteFile == \E d \in StoreDirs : \E n \in StoreFileNames : \E f \in FileVariants(n) : WriteFile(<<d>>, n, f.text, f.readable, MaxStoreNodes)

\* one call of an exported function on the store as the environment left it;
\* res is what the call returns or throws
Call(op, name, file, res) ==
  /\ reply.op = "none"
  /\ reply' = [op |-> op, name |-> name, file |-> file, res |-> res]
  /\ UNCHANGED <<store, host, out, report, again, heap, builder, client, history>>

CallListPromptFiles == \E n \in StoreNames : Call("listPromptFiles", n, <<>>, listPromptFilesCall(store, n))

CallListAll == Call("listAll", <<>>, <<>>, listAllCall(store))

CallGetPrompts == \E n \in StoreNames : Call("getPrompts", n, <<>>, getPrompts(store, n))

CallGetPrompt == \E n \in StoreNames : \E f \in StoreFiles : Call("getPrompt", n, f, getPrompt(store, n, f))

CallHasPrompt == \E n \in StoreNames : \E f \in StoreFiles \cup {<<>>} : Call("hasPrompt", n, f, Ok(hasPrompt(store, n, f), 1))

NextStore == StoreMkdir \/ StoreMkdirSub \/ StoreWriteFile \/ CallListPromptFiles \/ CallListAll \/ CallGetPrompts \/ CallGetPrompt \/ CallHasPrompt

SpecStore == Init /\ [][NextStore]_vars

(***************************************************************************)
(* The ContextBuilder's specification: a caller holds one builder and the  *)
(* mapping that build() returned last, and may add or delete a key of      *)
(* that mapping; the environment goes on writing to the store between the  *)
(* calls.  history records the calls for the properties: the names loaded  *)
(* since the last clear with the prompts each was loaded with, whether a   *)
(* call has thrown, and whether nothing was loaded since a clear.          *)
(***************************************************************************)
MaxBuilderNodes == 3

BuilderDirs == {Nm("system"), Nm("cache"), Nm("__proto__")}

\* the arguments of loadMany
NameLists == {<<a, b>> : a \in BuilderDirs, b \in BuilderDirs} \ {<<a, a>> : a \in BuilderDirs}

BuilderMkdir ==
  \E n \in BuilderDirs :
    /\ NodeCount(store) < MaxBuilderNodes
    /\ IndexOf(store, n) = 0
    /\ store' = Append(store, DirNode(n, <<>>))
    /\ UNCHANGED <<host, out, report, again, api>>

BuilderWriteFile ==
  \E n \in BuilderDirs :
    /\ NodeCount(store) < MaxBuilderNodes
    /\ NodeAt(Root(store), <<n>>).kind = "dir"
    /\ NodeAt(Root(store), <<n>>).children = <<>>
    /\ store' = AddAt(store, <<n>>, FileNode(<<"overview", ".md">>, "t1", TRUE))
    /\ UNCHANGED <<host, out, report, again, api>>

\* the names of a call up to the first whose prompts cannot be listed
RECURSIVE LoadedPrefix(_, _)
LoadedPrefix(s, names) ==
  IF names = <<>> \/ ~getPrompts(s, <<Head(names)>>).ok THEN <<>>
  ELSE <<Head(names)>> \o LoadedPrefix(s, Tail(names))

\* the record of the loads, each name with the prompts of its latest load
RECURSIVE Remember(_, _, _)
Remember(loaded, s, names) ==
  IF names = <<>> THEN loaded
  ELSE Remember({l \in loaded : l.name # Head(names)}
                  \cup {[name |-> Head(names), prompts |-> getPrompts(s, <<Head(names)>>).val]},
                s, Tail(names))

Called(op, names, ok) ==
  reply' = [op |-> op, name |-> names, file |-> <<>>,
            res |-> IF ok THEN Ok(<<>>, 0) ELSE Fail("Failed to load prompts", 0)]

\* a call of load, loadMany or loadAll that leaves r
Loads(op, names, r) ==
  /\ heap' = [heap EXCEPT ![builder.context] = r.val]
  /\ Called(op, names, r.ok)
  /\ history' = [loaded |-> Remember(history.loaded, store, LoadedPrefix(store, names)),
                 failed |-> history.failed \/ Len(LoadedPrefix(store, names)) < Len(names),
                 cleared |-> FALSE]
  /\ UNCHANGED <<store, host, out, report, again, builder, client>>

Load == \E n \in BuilderDirs : Loads("load", <<n>>, LoadEach(heap[builder.context], store, <<n>>))

LoadMany == \E ns \in NameLists : Loads("loadMany", ns, loadMany(heap[builder.context], store, ns))

LoadAll == Loads("loadAll", listAll(store), loadAll(heap[builder.context], store))

\* a call of build() that returns r.ref
Builds(r) ==
  /\ heap' = r.heap
  /\ client' = [built |-> r.ref]
  /\ Called("build", <<>>, TRUE)
  /\ UNCHANGED <<store, host, out, report, again, builder, history>>

Build == Builds(build(heap, builder, client))

\* a call of clear() after which this.context is r.ref
Clears(r) ==
  /\ heap' = r.heap
  /\ builder' = [context |-> r.ref]
  /\ Called("clear", <<>>, TRUE)
  /\ history' = [loaded |-> {}, failed |-> history.failed, cleared |-> TRUE]
  /\ UNCHANGED <<store, host, out, report, again, client>>

Clear == Clears(clear(heap, builder, client))

\* the caller changes the mapping it was given: built[k] = {} or delete built[k]
Changes(op, k, m) ==
  /\ client.built # 0
  /\ heap' = [heap EXCEPT ![client.built] = m]
  /\ Called(op, <<k>>, TRUE)
  /\ UNCHANGED <<store, host, out, report, again, builder, client, history>>

SetKey == Changes("set", Nm("extra"), Put(heap[client.built], Nm("extra"), Obj(<<>>)))

DeleteKey == \E k \in BuilderDirs : client.built # 0 /\ Has(heap[client.built], k) /\ Changes("delete", k, Delete(heap[client.built], k))

NextBuilder == BuilderMkdir \/ BuilderWriteFile \/ Load \/ LoadMany \/ LoadAll \/ Build \/ Clear \/ SetKey \/ DeleteKey

SpecBuilder == Init /\ [][NextBuilder]_vars

(***************************************************************************)
(* scripts/update-status.ts                                                *)
(***************************************************************************)
\* getPackageMetadata, lines 80-96: null unless package.json or src/ exists
HasMetadata(pkgJson, src) == pkgJson \/ src

\* the loop of lines 44-56: every directory beside prompts is a 'package'
RECURSIVE StatusEntries(_)
StatusEntries(entries) ==
  IF entries = <<>> THEN <<>>
  ELSE (IF Head(entries).name # Nm("prompts") /\ Head(entries).isDir
           /\ HasMetadata(Head(entries).pkgJson, Head(entries).src)
        THEN <<[name |-> Head(entries).name, type |-> "package"]>>
        ELSE <<>>)
       \o StatusEntries(Tail(entries))

\* lines 61-70: the root of the host project is the 'application'
StatusRootApplication(h, packages) ==
  IF HasMetadata(h.rootPkgJson, h.rootSrc)
  THEN Append(packages, [name |-> Nm("h1b-visa-analysis"), type |-> "application"])
  ELSE packages

scanAllPackages(h) ==
  StatusRootApplication(h, IF h.readable THEN StatusEntries(h.entries) ELSE <<>>)

\* line 297
promptDir(pkg) == IF pkg.type = "package" THEN Nm("packages") ELSE Nm("applications")

\* the directory of statusPath: src/<promptDir>/<name>
StatusDir(pkg) == <<promptDir(pkg), pkg.name>>

StatusFile == <<"status", ".md">>

\* fs.writeFile on a directory listing: the file is added, or replaces the
\* file of that name; a directory of that name is left (EISDIR)
Written(children, node) ==
  IF IndexOf(children, node.name) = 0 THEN Append(children, node)
  ELSE [i \in 1..Len(children) |->
          IF children[i].name = node.name /\ children[i].kind = "file"
          THEN node ELSE children[i]]

\* lines 382-387: the status is written when its directory exists; the
\* failure (ENOENT) is caught and logged
writeStatus(s, pkg) ==
  IF NodeAt(Root(s), StatusDir(pkg)).kind # "dir" THEN s
  ELSE [i \in 1..Len(s) |->
          IF s[i].name # promptDir(pkg) THEN s[i]
          ELSE [s[i] EXCEPT !.children =
                  [j \in 1..Len(@) |->
                     IF @[j].name # pkg.name THEN @[j]
                     ELSE [@[j] EXCEPT !.children =
                             Written(@, FileNode(StatusFile, "t2", TRUE))]]]]

\* the loop of lines 410-412
RECURSIVE UpdateEach(_, _)
UpdateEach(pkgs, s) ==
  IF pkgs = <<>> THEN s
  ELSE UpdateEach(Tail(pkgs), writeStatus(s, Head(pkgs)))

\* what one run addressed: each component with the directory of its status
StatusPaths(pkgs) ==
  [i \in 1..Len(pkgs) |-> [name |-> pkgs[i].name, type |-> pkgs[i].type,
                           dir |-> StatusDir(pkgs[i])]]

updateAllStatuses(h, s) == UpdateEach(scanAllPackages(h), s)

\* one run of the update-status CLI
UpdateStatus ==
  /\ reply.op = "none"
  /\ report.status = "none"
  /\ store' = updateAllStatuses(host, store)
  /\ reply' = [op |-> "updateStatus", name |-> <<>>, file |-> <<>>,
               res |-> Ok(StatusPaths(scanAllPackages(host)), 0)]
  /\ UNCHANGED <<host, out, report, again, heap, builder, client, history>>

\* a status.md left by an earlier run
StatusWriteFile ==
  \E p \in Partitions : \E n \in ValNames :
    WriteFile(<<p, n>>, StatusFile, "t1", TRUE, MaxValNodes)

NextStatus == ValMkdirPartition \/ ValMkdir \/ StatusWriteFile \/ UpdateStatus

SpecStatus == InitValidator /\ [][NextStatus]_vars

(***************************************************************************)
(* Reference definitions used by the properties                            *)
(***************************************************************************)
\* the string leaves of a context, each with its key path
RECURSIVE LeafSet(_)
LeafSet(m) ==
  UNION {IF m[i].v.t = "str" THEN {[path |-> <<m[i].k>>, text |-> m[i].v.s]}
         ELSE IF m[i].v.t = "obj"
         THEN {[path |-> <<m[i].k>> \o l.path, text |-> l.text] : l \in LeafSet(m[i].v.o)}
         ELSE {} : i \in 1..Len(m)}

\* every key, at any depth, is bound to a string or to a mapping
RECURSIVE AllBound(_)
AllBound(m) ==
  \A i \in 1..Len(m) :
    \/ m[i].v.t = "str"
    \/ m[i].v.t = "obj" /\ AllBound(m[i].v.o)

DirExists(s, path) == NodeAt(Root(s), path).kind = "dir"

\* the entries stored in the directory at path: name without extension, text
StoredEntries(s, path) ==
  LET ch == NodeAt(Root(s), path).children
  IN {[k |-> SubSeq(ch[i].name, 1, Len(ch[i].name) - 1), text |-> ch[i].text] :
        i \in {j \in 1..Len(ch) : /\ ch[j].kind = "file"
                                  /\ ch[j].name[Len(ch[j].name)] = ".md"
                                  /\ ch[j].readable}}

\* the leaves that the entries of a directory give under a key path
LeavesUnder(prefix, entries) ==
  {[path |-> prefix \o <<e.k>>, text |-> e.text] : e \in entries}

SeqSet(sq) == {sq[i] : i \in 1..Len(sq)}

Ran == out.status # "none"

Succeeded == out.status = "ok"

Validated == report.status = "done"

(***************************************************************************)
(* C1: for every valid scope with its required target, the totalPrompts of *)
(* the returned metadata equals the number of string leaves of the         *)
(* returned context.                                                       *)
(***************************************************************************)
C1_TotalIsLeafCount ==
  Succeeded => out.metadata.totalPrompts = Cardinality(LeafSet(out.context))

(***************************************************************************)
(* C2: for scope package (application) with target t, the leaves of the    *)
(* returned context are exactly the entries stored under packages/t        *)
(* (applications/t), nested under the key t, and totalPrompts counts them. *)
(***************************************************************************)
ScopePartition(sc) == IF sc = "package" THEN Nm("packages") ELSE Nm("applications")

C2_TargetSubtree ==
  (Succeeded /\ out.opts.scope \in {"package", "application"})
  => LET stored == StoredEntries(store, <<ScopePartition(out.opts.scope), out.opts.target>>)
     IN /\ LeafSet(out.context) =
             LeavesUnder(<<Nm(out.opts.scope), out.opts.target>>, stored)
        /\ out.metadata.totalPrompts = Cardinality(stored)

(***************************************************************************)
(* C3: for scope full, the returned context holds the system entries, the  *)
(* workflow entries and the entries of every known package and of every    *)
(* known application, each under the key of its owner.                     *)
(***************************************************************************)
HoldsEntries(context, owner, entries) ==
  \A e \in entries :
    \E l \in LeafSet(context) :
      /\ l.text = e.text
      /\ Len(l.path) >= 2
      /\ SubSeq(l.path, Len(l.path) - 1, Len(l.path)) = <<owner, e.k>>

C3_FullHoldsEverything ==
  (Succeeded /\ out.opts.scope = "full")
  => /\ HoldsEntries(out.context, Nm("system"), StoredEntries(store, <<Nm("system")>>))
     /\ HoldsEntries(out.context, Nm("workflows"), StoredEntries(store, <<Nm("workflows")>>))
     /\ \A p \in SeqSet(out.metadata.packages) :
          HoldsEntries(out.context, p, StoredEntries(store, <<Nm("packages"), p>>))
     /\ \A a \in SeqSet(out.metadata.applications) :
          HoldsEntries(out.context, a, StoredEntries(store, <<Nm("applications"), a>>))

(***************************************************************************)
(* C4: for scope workflow with target w the result is { w: text } with     *)
(* count 1 when the entry w exists, and {} with count 0 when it does not;  *)
(* with no target every workflow entry is aggregated.                      *)
(***************************************************************************)
C4_WorkflowTarget ==
  (/\ Ran
   /\ out.opts.scope = "workflow"
   /\ DirExists(store, <<Nm("workflows")>>))
  => LET stored == StoredEntries(store, <<Nm("workflows")>>)
         named == {e \in stored : e.k = out.opts.target}
     IN /\ Succeeded
        /\ out.opts.target # NoTarget =>
             /\ Get(out.context, Nm("workflow")).o =
                  IF named = {} THEN <<>>
                  ELSE <<[k |-> out.opts.target,
                          v |-> Str((CHOOSE e \in named : TRUE).text)]>>
             /\ out.metadata.totalPrompts = Cardinality(named)
        /\ out.opts.target = NoTarget =>
             LeafSet(out.context) = LeavesUnder(<<Nm("workflows")>>, stored)

(***************************************************************************)
(* C5: a run with scope package or application and no target fails with a  *)
(* configuration error before any Entry Store operation is performed.      *)
(***************************************************************************)
MissingTarget ==
  Ran /\ out.opts.scope \in {"package", "application"} /\ out.opts.target = NoTarget

C5_MissingTargetFailsFirst ==
  MissingTarget => /\ out.status = "error"
                   /\ out.exit = 1
                   /\ out.err = "--target is required"
                   /\ out.calls = 0

C5_Witness == MissingTarget /\ out.status = "error" /\ DirExists(store, <<Nm("packages")>>)

(***************************************************************************)
(* C6: a partition or category that is absent from the store never makes   *)
(* the aggregation fail: its key is mapped to the empty mapping.           *)
(***************************************************************************)
C6_AbsentDegrades ==
  /\ (Ran /\ out.opts.scope = "system" /\ ~DirExists(store, <<Nm("system")>>))
       => Succeeded /\ out.context = <<[k |-> Nm("system"), v |-> Obj(<<>>)]>>
  /\ (/\ Ran
      /\ out.opts.scope = "workflow"
      /\ out.opts.target = NoTarget
      /\ ~DirExists(store, <<Nm("workflows")>>))
       => Succeeded /\ out.context = <<[k |-> Nm("workflows"), v |-> Obj(<<>>)]>>
  /\ (/\ Ran
      /\ out.opts.scope = "package"
      /\ out.opts.target # NoTarget
      /\ ~DirExists(store, <<out.opts.target>>)
      /\ ~DirExists(store, <<Nm("packages"), out.opts.target>>))
       => /\ Succeeded
          /\ out.context = <<[k |-> Nm("package"),
                              v |-> Obj(<<[k |-> out.opts.target, v |-> Obj(<<>>)]>>)]>>
  /\ (Ran /\ out.opts.scope = "full") => Succeeded

(***************************************************************************)
(* C7: the keys of a returned context are exactly the names of the entries *)
(* that existed and were read; a missing or unreadable entry contributes   *)
(* no key, never a key bound to undefined, and does not abort the run.     *)
(***************************************************************************)
C7_KeysAreEntriesRead ==
  /\ Succeeded => AllBound(out.context)
  /\ (Succeeded /\ out.opts.scope = "system")
       => LeafSet(out.context) =
            LeavesUnder(<<Nm("system")>>, StoredEntries(store, <<Nm("system")>>))
  /\ (Ran /\ out.opts.scope = "system" /\ DirExists(store, <<Nm("system")>>))
       => Succeeded

(***************************************************************************)
(* C8: the validator exits with status 0 if and only if it reported no     *)
(* missing component and no orphaned location; otherwise with status 1.    *)
(***************************************************************************)
C8_SuccessIffClean ==
  Validated =>
    /\ report.exit \in {0, 1}
    /\ report.exit = 0 <=> (report.missing = <<>> /\ report.orphaned = <<>>)

C8_Witness ==
  Validated /\ report.missing = <<>> /\ report.orphaned # <<>> /\ report.exit = 1

(***************************************************************************)
(* C9: every component of the ground-truth list is classified exactly      *)
(* once, as found or missing, and it is missing exactly when its expected  *)
(* location (packages/<name> for a package, applications/<name> for an     *)
(* application) does not exist in the store.                               *)
(***************************************************************************)
Occurrences(x, sq) == Cardinality({i \in 1..Len(sq) : sq[i] = x})

LocationExists(s, partition, n) == NodeAt(Root(s), <<partition, n>>).kind # "none"

ExpectedExists(s, pkg) ==
  \/ pkg.type = "package" /\ LocationExists(s, Nm("packages"), pkg.name)
  \/ pkg.type = "application" /\ LocationExists(s, Nm("applications"), pkg.name)

C9_ClassifiedOnce ==
  Validated =>
    /\ report.foundCount + report.missingCount = Len(report.project)
    /\ \A pkg \in SeqSet(report.project) :
         /\ Occurrences(pkg, report.found) + Occurrences(pkg, report.missing)
              = Occurrences(pkg, report.project)
         /\ InSeq(pkg, report.missing) <=> ~ExpectedExists(store, pkg)
         /\ InSeq(pkg, report.found) <=> ExpectedExists(store, pkg)

C9_Witness ==
  /\ Validated
  /\ \E pkg \in SeqSet(report.missing) :
       /\ pkg.type = "application"
       /\ LocationExists(store, Nm("packages"), pkg.name)
  /\ report.found # <<>>

(***************************************************************************)
(* C10: the orphans reported are exactly the locations that exist under    *)
(* packages/ or applications/ whose leaf name is not the name of any       *)
(* component of the ground-truth list.                                     *)
(***************************************************************************)
ExistingLocations(s) ==
  UNION {{<<p, c.name>> : c \in SeqSet(NodeAt(Root(s), <<p>>).children)} : p \in Partitions}

C10_OrphansExact ==
  Validated =>
    /\ SeqSet(report.orphaned) =
         {loc \in ExistingLocations(store) :
            \A i \in 1..Len(report.project) : report.project[i].name # loc[2]}
    /\ Len(report.orphaned) = Cardinality(SeqSet(report.orphaned))
    /\ report.orphanedCount = Len(report.orphaned)

C10_Witness ==
  /\ Validated
  /\ \E loc \in SeqSet(report.orphaned) : loc[1] = Nm("applications")
  /\ \E loc \in ExistingLocations(store) : ~InSeq(loc, report.orphaned)

(***************************************************************************)
(* C11: when the components of kind package are exactly the names under    *)
(* packages/ and the components of kind application are exactly the names  *)
(* under applications/, the validator reports nothing missing, nothing     *)
(* orphaned, and succeeds.                                                 *)
(***************************************************************************)
NamesOfKind(project, kind) ==
  {project[i].name : i \in {j \in 1..Len(project) : project[j].type = kind}}

NamesUnder(s, partition) == {c.name : c \in SeqSet(NodeAt(Root(s), <<partition>>).children)}

MatchingNameSets ==
  /\ NamesOfKind(scanProjectPackages(host), "package") = NamesUnder(store, Nm("packages"))
  /\ NamesOfKind(scanProjectPackages(host), "application")
       = NamesUnder(store, Nm("applications"))

C11_ValidatorSymmetry ==
  (Validated /\ MatchingNameSets)
  => /\ report.missing = <<>>
     /\ report.orphaned = <<>>
     /\ report.exit = 0

C11_Witness ==
  /\ Validated
  /\ MatchingNameSets
  /\ \E pkg \in SeqSet(report.project) : pkg.type = "application"
  /\ report.exit = 0

(***************************************************************************)
(* C12: a validation run without the create mode leaves the store and the  *)
(* project listing as they were: the locations under packages/ and         *)
(* applications/ and the components listed are the same after the run as   *)
(* before it, whatever the report says.                                    *)
(***************************************************************************)
C12_ValidateHasNoEffect ==
  [][(report.status = "none" /\ report'.status = "done" /\ ~report'.create)
     => /\ store' = store
        /\ ExistingLocations(store') = ExistingLocations(store)
        /\ scanProjectPackages(host') = scanProjectPackages(host)]_vars

C12_Witness ==
  /\ Validated
  /\ ~report.create
  /\ report.missing # <<>>
  /\ report.exit = 1

(***************************************************************************)
(* C13: a second aggregation with the same scope and target against the    *)
(* unchanged store returns the same context and the same metadata as the   *)
(* first, the generation timestamp excepted.                               *)
(***************************************************************************)
Untimed(metadata) == [metadata EXCEPT !.generated = 0]

Blank == {"\n", " ", "  "}

RECURSIVE SkipBlank(_)
SkipBlank(ts) == IF ts # <<>> /\ Head(ts) \in Blank THEN SkipBlank(Tail(ts)) ELSE ts

Unread == [ok |-> FALSE, val |-> Undef, rest |-> <<>>]

Read(v, rest) == [ok |-> TRUE, val |-> v, rest |-> rest]

NumLit(piece) == [t |-> "num", s |-> "", o |-> <<>>, c |-> <<piece>>]

\* a value without the memory of where its strings came from
RECURSIVE Plain(_)
Plain(v) ==
  [t |-> v.t, s |-> "", c |-> v.c,
   o |-> [i \in 1..Len(v.o) |-> [k |-> v.o[i].k, v |-> Plain(v.o[i].v)]]]

\* the pieces before the first occurrence of stop, the rest after it
RECURSIVE ReadUntil(_, _, _)
ReadUntil(ts, stop, acc) ==
  IF ts = <<>> THEN Unread
  ELSE IF Head(ts) = stop THEN Read(acc, Tail(ts))
  ELSE ReadUntil(Tail(ts), stop, Append(acc, Head(ts)))

\* a JSON string, after its opening quote
RECURSIVE ReadString(_, _)
ReadString(ts, acc) ==
  IF ts = <<>> THEN Unread
  ELSE IF Head(ts) = "\"" THEN Read(Chars(acc), Tail(ts))
  ELSE IF Head(ts) = "\\"
  THEN (IF Len(ts) < 2 THEN Unread
        ELSE ReadString(Tail(Tail(ts)), Append(acc, IF ts[2] = "n" THEN "\n" ELSE ts[2])))
  ELSE ReadString(Tail(ts), Append(acc, Head(ts)))

RECURSIVE ParseValue(_)
RECURSIVE ParseMembers(_, _)
RECURSIVE ParseElements(_, _)

AfterMember(key, v, acc) ==
  IF ~v.ok THEN Unread
  ELSE IF SkipBlank(v.rest) # <<>> /\ Head(SkipBlank(v.rest)) = ","
  THEN ParseMembers(SkipBlank(Tail(SkipBlank(v.rest))), Put(acc, key, v.val))
  ELSE ParseMembers(SkipBlank(v.rest), Put(acc, key, v.val))

AfterKey(key, acc) ==
  IF ~key.ok \/ SkipBlank(key.rest) = <<>> THEN Unread
  ELSE IF Head(SkipBlank(key.rest)) # ":" THEN Unread
  ELSE AfterMember(key.val.c, ParseValue(Tail(SkipBlank(key.rest))), acc)

ParseMembers(ts, acc) ==
  IF ts = <<>> THEN Unread
  ELSE IF Head(ts) = "}" THEN Read(Obj(acc), Tail(ts))
  ELSE IF Head(ts) = "\"" THEN AfterKey(ReadString(Tail(ts), <<>>), acc)
  ELSE Unread

AfterElement(v, acc) ==
  IF ~v.ok THEN Unread
  ELSE IF SkipBlank(v.rest) # <<>> /\ Head(SkipBlank(v.rest)) = ","
  THEN ParseElements(SkipBlank(Tail(SkipBlank(v.rest))), Append(acc, v.val))
  ELSE ParseElements(SkipBlank(v.rest), Append(acc, v.val))

ParseElements(ts, acc) ==
  IF ts = <<>> THEN Unread
  ELSE IF Head(ts) = "]" THEN Read(Arr(acc), Tail(ts))
  ELSE AfterElement(ParseValue(ts), acc)

ValueAt(ts) ==
  IF ts = <<>> THEN Unread
  ELSE CASE Head(ts) = "{" -> ParseMembers(SkipBlank(Tail(ts)), <<>>)
         [] Head(ts) = "[" -> ParseElements(SkipBlank(Tail(ts)), <<>>)
         [] Head(ts) = "\"" -> ReadString(Tail(ts), <<>>)
         [] OTHER -> Read(NumLit(Head(ts)), Tail(ts))

ParseValue(ts) == ValueAt(SkipBlank(ts))

Whole(r) == IF r.ok /\ SkipBlank(r.rest) = <<>> THEN r.val ELSE Undef

\* JSON.parse; Undef stands for a syntax error
JSONparse(ts) == Whole(ParseValue(ts))

Prolog == "<?xml version=\"1.0\" encoding=\"UTF-8\"?>"

NoElement == [k |-> <<>>, v |-> Undef]

\* the end tag of name, after its "</"
XClose(name, val, ts) ==
  IF Len(ts) > Len(name) /\ SubSeq(ts, 1, Len(name)) = name /\ ts[Len(name) + 1] = ">"
  THEN Read([k |-> name, v |-> val], SubSeq(ts, Len(name) + 2, Len(ts)))
  ELSE Unread

\* the text of a section without the line feeds the renderer puts around it
Trim(c) ==
  IF Len(c) >= 2 /\ Head(c) = "\n" /\ c[Len(c)] = "\n" THEN SubSeq(c, 2, Len(c) - 1) ELSE c

\* after a CDATA section comes the end tag: character data may not hold "]]>"
XAfterCData(name, r) ==
  IF ~r.ok \/ r.rest = <<>> THEN Unread
  ELSE IF Head(r.rest) # "</" THEN Unread
  ELSE XClose(name, Chars(Trim(r.val)), Tail(r.rest))

XAfterText(name, r) ==
  IF ~r.ok THEN Unread
  ELSE IF \E i \in 1..Len(r.val) : r.val[i] \in {"]]>", "<", "<![CDATA["} THEN Unread
  ELSE XClose(name, Chars(r.val), r.rest)

RECURSIVE XElement(_)
RECURSIVE XChildren(_, _, _)

XAfterChild(name, r, acc) ==
  IF ~r.ok THEN Unread ELSE XChildren(name, SkipBlank(r.rest), Append(acc, r.val))

XChildren(name, ts, acc) ==
  IF ts = <<>> THEN Unread
  ELSE IF Head(ts) = "</" THEN XClose(name, Obj(acc), Tail(ts))
  ELSE XAfterChild(name, XElement(ts), acc)

XContent(name, ts) ==
  IF ts = <<>> THEN Unread
  ELSE CASE Head(ts) = "<![CDATA[" -> XAfterCData(name, ReadUntil(Tail(ts), "]]>", <<>>))
         [] Head(ts) = "<" -> XChildren(name, ts, <<>>)
         [] Head(ts) = "</" -> XClose(name, Obj(<<>>), Tail(ts))
         [] OTHER -> XAfterText(name, ReadUntil(ts, "</", <<>>))

XNamed(n) == IF ~n.ok THEN Unread ELSE XContent(n.val, SkipBlank(n.rest))

XElement(ts) ==
  IF ts = <<>> THEN Unread
  ELSE IF Head(ts) # "<" THEN Unread
  ELSE XNamed(ReadUntil(Tail(ts), ">", <<>>))

XWhole(r) == IF r.ok /\ SkipBlank(r.rest) = <<>> THEN r.val ELSE NoElement

\* the root element of a well-formed document, NoElement for any other text
XMLparse(ts) ==
  IF ts = <<>> THEN NoElement
  ELSE IF Head(ts) # Prolog THEN NoElement
  ELSE XWhole(XElement(SkipBlank(Tail(ts))))

Places(ts, piece) == {i \in 1..Len(ts) : ts[i] = piece}

\* the number of CDATA sections: each runs from a start mark that is not
\* inside an earlier section to the next end mark
CountSections(ts) ==
  Cardinality({i \in Places(ts, "<![CDATA[") :
                 /\ \E j \in Places(ts, "]]>") : j > i
                 /\ \A h \in Places(ts, "<![CDATA[") :
                      h < i => \E j \in Places(ts, "]]>") : h < j /\ j < i})

\* the n-th place of a set of places
Nth(places, n) == CHOOSE p \in places : Cardinality({q \in places : q < p}) = n - 1

\* the name of the tag that starts at place i, up to the next ">"
TagName(ts, i) ==
  SubSeq(ts, i + 1, (CHOOSE j \in Places(ts, ">") :
                       j > i /\ \A h \in Places(ts, ">") : h > i => j <= h) - 1)

\* the names of the start tags, in the order of the text
OpenTags(ts) ==
  [n \in 1..Cardinality(Places(ts, "<")) |-> TagName(ts, Nth(Places(ts, "<"), n))]

\* the markdown outline: one [level, label, leaf, text] for every heading
RECURSIVE LeadingHashes(_)
LeadingHashes(ts) ==
  IF ts # <<>> /\ Head(ts) = "#" THEN 1 + LeadingHashes(Tail(ts)) ELSE 0

Entry(level, label, leaf, text) ==
  [level |-> level, label |-> label, leaf |-> leaf, text |-> text]

Garbled == Entry(0, <<>>, FALSE, <<>>)

RECURSIVE ReadOutline(_, _)
AfterText(level, label, txt, acc) ==
  IF ~txt.ok THEN Append(acc, Garbled)
  ELSE ReadOutline(txt.rest, Append(acc, Entry(level, label, TRUE, txt.val)))

AfterLabel(level, lab, acc) ==
  IF ~lab.ok THEN Append(acc, Garbled)
  ELSE IF lab.rest = <<>> \/ Head(lab.rest) = "#"
  THEN ReadOutline(lab.rest, Append(acc, Entry(level, lab.val, FALSE, <<>>)))
  ELSE AfterText(level, lab.val, ReadUntil(lab.rest, "\n\n", <<>>), acc)

AfterHashes(level, ts, acc) ==
  IF ts = <<>> THEN Append(acc, Garbled)
  ELSE IF Head(ts) # " " THEN Append(acc, Garbled)
  ELSE AfterLabel(level, ReadUntil(Tail(ts), "\n\n", <<>>), acc)

ReadOutline(ts, acc) ==
  IF ts = <<>> THEN acc
  ELSE IF Head(ts) # "#" THEN Append(acc, Garbled)
  ELSE AfterHashes(LeadingHashes(ts), SubSeq(ts, LeadingHashes(ts) + 1, Len(ts)), acc)

\* the place of the first occurrence of pat in ts, 0 when there is none
Find(ts, pat) ==
  IF \E i \in 1..(Len(ts) - Len(pat) + 1) : SubSeq(ts, i, i + Len(pat) - 1) = pat
  THEN CHOOSE i \in 1..(Len(ts) - Len(pat) + 1) :
         /\ SubSeq(ts, i, i + Len(pat) - 1) = pat
         /\ \A j \in 1..(i - 1) : SubSeq(ts, j, j + Len(pat) - 1) # pat
  ELSE 0

EndsWith(ts, pat) ==
  Len(ts) >= Len(pat) /\ SubSeq(ts, Len(ts) - Len(pat) + 1, Len(ts)) = pat

StartsWith(ts, pat) == Len(ts) >= Len(pat) /\ SubSeq(ts, 1, Len(pat)) = pat

Separator == <<"---", "\n\n">>

\* the markdown text after the metadata block, if there is one
MdContent ==
  IF Find(out.text, Separator) = 0 THEN out.text
  ELSE SubSeq(out.text, Find(out.text, Separator) + 2, Len(out.text))

\* the mapping that a reader of the JSON output finds as the context
ParsedContext ==
  IF out.opts.includeMetadata
  THEN Get(JSONparse(out.text).o, Nm("context"))
  ELSE JSONparse(out.text)

(***************************************************************************)
(* C14: the json rendering of an aggregated context with minify = false,   *)
(* parsed back, is the original mapping: the same keys bound to the same   *)
(* values.                                                                 *)
(***************************************************************************)
C14_JsonRoundTrip ==
  (Succeeded /\ out.opts.format = "json" /\ ~out.opts.minify)
  => ParsedContext = Plain(Obj(out.context))

(***************************************************************************)
(* C15: whatever the format, the rendering surfaces as many leaf text      *)
(* blocks as the context has string leaves: strings in the parsed json,    *)
(* CDATA sections in the xml, headings followed by a text in the markdown. *)
(***************************************************************************)
LeafBlocks ==
  CASE out.opts.format = "json" -> Cardinality(LeafSet(ParsedContext.o))
    [] out.opts.format = "xml" -> CountSections(out.text)
    [] out.opts.format = "markdown" ->
         Cardinality({i \in 1..Len(ReadOutline(MdContent, <<>>)) :
                        ReadOutline(MdContent, <<>>)[i].leaf})
    [] OTHER -> 0

XmlPrompts ==
  IF out.opts.includeMetadata
  THEN Get(XMLparse(out.text).v.o, Nm("prompts"))
  ELSE XMLparse(out.text).v

C16_XmlMirrorsMapping ==
  (Succeeded /\ out.opts.format = "xml")
  => /\ XMLparse(out.text).k =
          IF out.opts.includeMetadata THEN Nm("context_export") ELSE Nm("prompts")
     /\ XmlPrompts = Plain(Obj(out.context))

(***************************************************************************)
(* C17: the markdown rendering holds, for every key in traversal order, a  *)
(* heading of level min(depth, 6) labelled with the key, its first letter  *)
(* in upper case, followed by the text of the key or by the headings of    *)
(* its children.                                                           *)
(***************************************************************************)
RECURSIVE Outline(_, _)
Outline(obj, d) ==
  IF obj = <<>> THEN <<>>
  ELSE <<Entry(IF d < 6 THEN d ELSE 6, Label(Head(obj).k), Head(obj).v.t = "str",
               Head(obj).v.c)>>
       \o Outline(Head(obj).v.o, d + 1)
       \o Outline(Tail(obj), d)

C17_MarkdownHeadings ==
  (Succeeded /\ out.opts.format = "markdown")
  => ReadOutline(MdContent, <<>>) = Outline(out.context, 1)

(***************************************************************************)
(* C18: the metadata block is in the output exactly when includeMetadata   *)
(* is set, and then it comes before the content: json is an object with    *)
(* the keys metadata and context in that order, xml has a root element     *)
(* that holds a metadata element and then the content element (the content *)
(* element is the root otherwise), markdown starts with the labelled list, *)
(* closed by a horizontal rule, before any content.                        *)
(***************************************************************************)
MetadataFirstJson ==
  IF out.opts.includeMetadata
  THEN Keys(JSONparse(out.text).o) = <<Nm("metadata"), Nm("context")>>
  ELSE /\ JSONparse(out.text).t = "obj"
       /\ ~Has(JSONparse(out.text).o, Nm("metadata"))

MetadataFirstXml ==
  IF out.opts.includeMetadata
  THEN /\ SubSeq(OpenTags(out.text), 1, 2) = <<Nm("context_export"), Nm("metadata")>>
       /\ Find(out.text, CloseTag(Nm("metadata"))) > 0
       /\ Find(out.text, CloseTag(Nm("metadata"))) < Find(out.text, OpenTag(Nm("prompts")))
       /\ EndsWith(out.text, CloseTag(Nm("prompts")) \o <<"\n">>
                                \o CloseTag(Nm("context_export")))
  ELSE /\ Head(OpenTags(out.text)) = Nm("prompts")
       /\ Find(out.text, OpenTag(Nm("metadata"))) = 0
       /\ EndsWith(out.text, CloseTag(Nm("prompts")))

MetadataFirstMarkdown ==
  IF out.opts.includeMetadata
  THEN /\ StartsWith(out.text, <<"#", " ", "Context Export", "\n\n", "**Generated**: ">>)
       /\ Find(out.text, <<"**Scope**: ">>) < Find(out.text, <<"**Total Prompts**: ">>)
       /\ Find(out.text, <<"**Total Prompts**: ">>) < Find(out.text, Separator)
       /\ Find(MdContent, Separator) = 0
  ELSE /\ Find(out.text, Separator) = 0
       /\ Find(out.text, <<"Context Export">>) = 0
       /\ Find(out.text, <<"**Generated**: ">>) = 0

C18_MetadataIffIncluded ==
  Succeeded =>
    CASE out.opts.format = "json" -> MetadataFirstJson
      [] out.opts.format = "xml" -> MetadataFirstXml
      [] out.opts.format = "markdown" -> MetadataFirstMarkdown
      [] OTHER -> FALSE

C18_Witness ==
  /\ Succeeded
  /\ out.opts.format = "json"
  /\ out.opts.includeMetadata
  /\ LeafSet(out.context) # {}
  /\ out.metadata.workflows # <<>>

(***************************************************************************)
(* C20: the keys of a mapping come out of every renderer in the order in   *)
(* which the aggregation collected them, for every set of names, those     *)
(* that look like numbers included.                                        *)
(***************************************************************************)
\* the keys of the entries of a directory in the order of their reading
CollectionOrder(s, path) ==
  LET ch == SelectSeq(NodeAt(Root(s), path).children,
                      LAMBDA n : /\ n.kind = "file"
                                 /\ n.name[Len(n.name)] = ".md"
                                 /\ n.readable)
  IN [i \in 1..Len(ch) |-> SubSeq(ch[i].name, 1, Len(ch[i].name) - 1)]

After(sq, x) ==
  IF \E i \in 1..Len(sq) : sq[i] = x
  THEN SubSeq(sq, (CHOOSE i \in 1..Len(sq) : sq[i] = x /\ \A j \in 1..(i - 1) : sq[j] # x) + 1,
              Len(sq))
  ELSE <<>>

Labels(entries) == [i \in 1..Len(entries) |-> entries[i].label]

VisitedKeys ==
  CASE out.opts.format = "json" -> Keys(Get(ParsedContext.o, Nm("system")).o)
    [] out.opts.format = "xml" -> After(OpenTags(out.text), Nm("system"))
    [] out.opts.format = "markdown" ->
         Labels(After(ReadOutline(MdContent, <<>>), Entry(1, Nm("System"), FALSE, <<>>)))
    [] OTHER -> <<>>

C20_KeysInCollectionOrder ==
  (Succeeded /\ out.opts.scope = "system")
  => VisitedKeys =
       IF out.opts.format = "markdown"
       THEN [i \in 1..Len(CollectionOrder(store, <<Nm("system")>>)) |->
               Label(CollectionOrder(store, <<Nm("system")>>)[i])]
       ELSE CollectionOrder(store, <<Nm("system")>>)

(***************************************************************************)
(* C21: the listing operations never raise an error, and listPromptFiles   *)
(* returns the empty sequence when its path is absent or is not a          *)
(* directory.                                                              *)
(***************************************************************************)
Listed == reply.op \in {"listPromptFiles", "listAll"}

NotAContainer(s, path) == NodeAt(Root(s), path).kind # "dir"

C21_ListingNeverRaises ==
  /\ Listed => reply.res.ok
  /\ (reply.op = "listPromptFiles" /\ NotAContainer(store, reply.name)) =>
       reply.res.val = <<>>

\* listPromptFiles was called with the path of a file
C21_Witness ==
  /\ reply.op = "listPromptFiles"
  /\ NodeAt(Root(store), reply.name).kind = "file"
  /\ reply.res.ok

(***************************************************************************)
(* C22: every name that listPromptFiles or getPrompts returns comes from a *)
(* regular file of the listed directory whose extension is .md; a file     *)
(* with another extension and a directory, whatever its name, give no      *)
(* name.                                                                   *)
(***************************************************************************)
\* the regular files with the extension .md directly under path
MdFiles(s, path) ==
  LET ch == NodeAt(Root(s), path).children
  IN {i \in 1..Len(ch) : ch[i].kind = "file" /\ ch[i].name[Len(ch[i].name)] = ".md"}

\* k is the file name n without one of its '.md'
NameOf(k, n) ==
  \E i \in 1..Len(n) : n[i] = ".md" /\ k = SubSeq(n, 1, i - 1) \o SubSeq(n, i + 1, Len(n))

FromMdFile(s, path, k) ==
  \E i \in MdFiles(s, path) : NameOf(k, NodeAt(Root(s), path).children[i].name)

C22_OnlyMdFilesVisible ==
  /\ reply.op = "listPromptFiles" =>
       /\ Len(reply.res.val) = Cardinality(MdFiles(store, reply.name))
       /\ \A i \in 1..Len(reply.res.val) : FromMdFile(store, reply.name, reply.res.val[i])
  /\ (reply.op = "getPrompts" /\ reply.res.ok) =>
       \A k \in KeySet(reply.res.val) : FromMdFile(store, reply.name, k)

\* the listed directory holds an entry, a file with another extension and a
\* directory named like an entry
C22_Witness ==
  /\ reply.op \in {"listPromptFiles", "getPrompts"}
  /\ reply.name = <<Nm("system")>>
  /\ NodeAt(Root(store), <<Nm("system"), <<"archive", ".md">>>>).kind = "dir"
  /\ NodeAt(Root(store), <<Nm("system"), <<"notes", ".txt">>>>).kind = "file"
  /\ NodeAt(Root(store), <<Nm("system"), <<"overview", ".md">>>>).kind = "file"
  /\ reply.res.ok

(***************************************************************************)
(* C23: getPrompt(name, file) returns the text of the file stored at       *)
(* exactly <name>/<file>.md, and fails, returning no value, whenever no    *)
(* file is stored at that exact path.                                      *)
(***************************************************************************)
\* what is stored at <name>/<file>.md
BlobAt(s, name, file) == NodeAt(Root(s), Append(name, Append(file, ".md")))

UnknownScope == Ran /\ out.opts.scope \notin Scopes

UnknownFormat == Ran /\ out.opts.format \notin Formats

C24_UnknownValueIsFatal ==
  /\ (UnknownScope \/ UnknownFormat) =>
       out.status = "error" /\ out.exit = 1 /\ out.text = <<>>
  /\ UnknownScope => out.err = "Unknown scope: " \o out.opts.scope
  /\ (UnknownFormat /\ ~UnknownScope) => out.err = "Unknown format: " \o out.opts.format

(***************************************************************************)
(* C25: a validator run in create mode reports no missing location; the    *)
(* locations it creates are expected locations of project components, and  *)
(* the orphans it reports are the orphans a validation of the store as it  *)
(* was before the run reports.                                             *)
(***************************************************************************)
ExpectedLocations(h) ==
  {ExpectedPath(scanProjectPackages(h)[i]) : i \in 1..Len(scanProjectPackages(h))}

C25_CreateLeavesNoneMissing ==
  [][(report.status = "none" /\ report'.status = "done" /\ report'.create)
     => /\ report'.missing = <<>>
        /\ report'.missingCount = 0
        /\ ExistingLocations(store') \ ExistingLocations(store) \subseteq ExpectedLocations(host)
        /\ ExistingLocations(store) \subseteq ExistingLocations(store')
        /\ report'.orphaned = validatePromptStructure(host, store).orphaned
        /\ report'.orphanedCount = validatePromptStructure(host, store).orphanedCount]_vars

\* a create run that made a location (the store holds more than the
\* environment put there) and reports an orphan
C25_Witness ==
  /\ Validated
  /\ report.create
  /\ NodeCount(store) > MaxValNodes
  /\ report.orphanedCount >= 1
  /\ report.foundCount >= 1
  /\ report.missingCount = 0

(***************************************************************************)
(* C26: after calls of load, loadMany, loadAll and clear that all          *)
(* succeeded, build() returns a mapping whose keys are exactly the names   *)
(* loaded since the last clear, each bound to the prompts of its latest    *)
(* load; with nothing loaded since a clear, build() returns the empty      *)
(* mapping.                                                                *)
(***************************************************************************)
LoadedNames == {l.name : l \in history.loaded}

\* the last call was build(), so that the caller holds what it returned
JustBuilt == reply.op = "build" /\ client.built # 0

C26_BuildIsWhatWasLoaded ==
  /\ (JustBuilt /\ ~history.failed) =>
       /\ KeySet(heap[client.built]) = LoadedNames
       /\ \A l \in history.loaded : Get(heap[client.built], l.name) = Obj(l.prompts)
  /\ (JustBuilt /\ history.cleared) => heap[client.built] = <<>>

(***************************************************************************)
(* C27: the mapping that build() returned keeps its key set when the       *)
(* builder is changed afterwards by load, loadMany, loadAll or clear, and  *)
(* a key added to or deleted from that mapping by its holder changes       *)
(* nothing in what the builder holds, so nothing in what a later build()   *)
(* returns.                                                                *)
(***************************************************************************)
BuilderCalls == {"load", "loadMany", "loadAll", "clear"}

HolderChanges == {"set", "delete"}

C27_BuildIsSnapshot ==
  [][/\ (client.built # 0 /\ reply'.op \in BuilderCalls) =>
          /\ client'.built = client.built
          /\ KeySet(heap'[client.built]) = KeySet(heap[client.built])
     /\ reply'.op \in HolderChanges =>
          /\ builder' = builder
          /\ BuilderBuild(heap'[builder.context]) = BuilderBuild(heap[builder.context])]_vars

\* the holder added a key to the mapping it was given and the builder was
\* then changed: the builder holds a name that the mapping does not
C27_Witness ==
  /\ client.built # 0
  /\ reply.op \in BuilderCalls
  /\ heap[builder.context] # <<>>
  /\ Nm("extra") \in KeySet(heap[client.built])
  /\ ~(KeySet(heap[builder.context]) \subseteq KeySet(heap[client.built]))

(***************************************************************************)
(* C28: a load that throws leaves the builder's context as it was; a       *)
(* loadMany or loadAll that throws at some name leaves the context as the  *)
(* loads of the names before that one made it, and holds no name that      *)
(* comes after it unless it was loaded before the call.                    *)
(***************************************************************************)
\* a step that is a call of load, loadMany or loadAll that threw
FailedLoadStep ==
  /\ store' = store
  /\ reply'.op \in {"load", "loadMany", "loadAll"}
  /\ ~reply'.res.ok

C28_FailedLoadKeepsPrefix ==
  [][FailedLoadStep =>
       /\ builder' = builder
       /\ reply'.op = "load" => heap'[builder.context] = heap[builder.context]
       /\ heap'[builder.context] =
            loadMany(heap[builder.context], store, LoadedPrefix(store, reply'.name)).val
       /\ KeySet(heap'[builder.context]) \subseteq
            KeySet(heap[builder.context]) \cup SeqSet(LoadedPrefix(store, reply'.name))
       /\ \A k \in KeySet(heap[builder.context]) \ SeqSet(LoadedPrefix(store, reply'.name)) :
            Get(heap'[builder.context], k) = Get(heap[builder.context], k)]_vars

\* loadMany threw at its first name; the second names a directory that
\* exists and that the builder does not hold
C28_Witness ==
  /\ reply.op = "loadMany"
  /\ ~reply.res.ok
  /\ NodeAt(Root(store), <<reply.name[1]>>).kind = "none"
  /\ NodeAt(Root(store), <<reply.name[2]>>).kind = "dir"
  /\ reply.name[2] # Nm("__proto__")
  /\ reply.name[2] \notin KeySet(heap[builder.context])
  /\ heap[builder.context] # <<>>

(***************************************************************************)
(* C29: on an unchanged store, every name that listPromptFiles(n) returns  *)
(* is one for which hasPrompt(n, f) is true and, the file being readable,  *)
(* getPrompt(n, f) succeeds; and when every read succeeds the keys of      *)
(* getPrompts(n) are the names that listPromptFiles(n) returns.            *)
(***************************************************************************)
\* every file directly under path can be read
AllReadable(s, path) ==
  \A i \in 1..Len(NodeAt(Root(s), path).children) :
    NodeAt(Root(s), path).children[i].kind = "file" =>
      NodeAt(Root(s), path).children[i].readable

C29_ListingExistenceReadingAgree ==
  /\ reply.op = "listPromptFiles" =>
       \A i \in 1..Len(reply.res.val) :
         /\ hasPrompt(store, reply.name, reply.res.val[i])
         /\ AllReadable(store, reply.name) =>
              getPrompt(store, reply.name, reply.res.val[i]).ok
  /\ (reply.op = "getPrompts" /\ reply.res.ok /\ AllReadable(store, reply.name)) =>
       KeySet(reply.res.val) = SeqSet(listPromptFiles(store, reply.name))

(***************************************************************************)
(* C30: for every project component, the directory in which update-status  *)
(* writes status.md is the location the validator expects for a component  *)
(* of that name from the kind the validator assigns.                       *)
(***************************************************************************)
\* the locations the validator expects for the components named n
ExpectedFor(h, n) ==
  {ExpectedPath(scanProjectPackages(h)[i]) :
     i \in {j \in 1..Len(scanProjectPackages(h)) : scanProjectPackages(h)[j].name = n}}

C30_StatusWhereValidatorExpects ==
  reply.op = "updateStatus" =>
    \A i \in 1..Len(reply.res.val) :
      ExpectedFor(host, reply.res.val[i].name) # {} =>
        reply.res.val[i].dir \in ExpectedFor(host, reply.res.val[i].name)

====
